---- MODULE Spec2Model ----
(***************************************************************************)
(* A model of devicely's SpacelabsReader (src/devicely/spacelabs.py): the  *)
(* reader of an .abp file (__init__), the transformations deidentify,      *)
(* timeshift, drop_EB and set_window, and the writer (write).              *)
(*                                                                         *)
(* Time is counted in seconds since 1970-01-01 00:00 (pandas counts        *)
(* nanoseconds; nothing in the code looks below the second).  A date is a  *)
(* day number since 1970-01-01, a time of day is a number of seconds since *)
(* midnight.  A text file is the sequence of its physical lines: the 51    *)
(* header lines, the body rows, the trailing XML line.                     *)
(***************************************************************************)
EXTENDS Integers, Sequences, FiniteSets, TLC

VARIABLES
    file,       \* the .abp file that the next call of the constructor reads
    doc,        \* the SpacelabsReader object (EmptyDoc while none exists)
    phase,      \* "file": nothing loaded yet; "loaded": an object exists;
                \* "written": write() has just run; "failed": __init__ raised
    outcome,    \* how the last call ended: "ok" or the exception raised
    lastOp,     \* the method called last
    snap,       \* the object that write() was last called on
    win,        \* the arguments of the last set_window call that set the columns
    nshift      \* the number of timeshift calls so far

vars == <<file, doc, phase, outcome, lastOp, snap, win, nshift>>

-----------------------------------------------------------------------------
(* Bounds of the model *)

\* the body of an input file has at most MaxRows rows
MaxRows == 2

\* at most MaxShifts calls of timeshift in one run
MaxShifts == 1

-----------------------------------------------------------------------------
(* Time *)

SecondsPerMinute == 60
SecondsPerHour == 60 * SecondsPerMinute
SecondsPerDay == 24 * SecondsPerHour

\* pandas Timestamp.round('min') and Timedelta.round('min'): to the nearest
\* minute, a tie going to the even minute
RoundMin(x) ==
    LET q == x \div SecondsPerMinute
        r == x % SecondsPerMinute
    IN  IF 2 * r < SecondsPerMinute THEN q * SecondsPerMinute
        ELSE IF 2 * r > SecondsPerMinute THEN (q + 1) * SecondsPerMinute
        ELSE IF q % 2 = 0 THEN q * SecondsPerMinute
        ELSE (q + 1) * SecondsPerMinute

\* dt.time(hour=..., minute=...): raises ValueError outside 0..23, 0..59
ValidTime(hour, minute) == hour \in 0..23 /\ minute \in 0..59
MakeTime(hour, minute) == hour * SecondsPerHour + minute * SecondsPerMinute

\* dt.datetime.combine(date, time) as a pandas timestamp
Combine(date, time) == date * SecondsPerDay + time

\* Timestamp.date() and Timestamp.time()
DateOf(timestamp) == timestamp \div SecondsPerDay
TimeOf(timestamp) == timestamp % SecondsPerDay

\* time.strftime("%H") and time.strftime("%M"), read as numbers
StrfHour(time) == time \div SecondsPerHour
StrfMinute(time) == (time % SecondsPerHour) \div SecondsPerMinute

\* the proleptic Gregorian calendar of datetime.date: day number -> <<d, m, y>>
StrfDate(date) ==
    LET z == date + 719468
        era == z \div 146097
        doe == z - era * 146097
        yoe == (doe - doe \div 1460 + doe \div 36524 - doe \div 146096) \div 365
        doy == doe - (365 * yoe + yoe \div 4 - yoe \div 100)
        mp == (5 * doy + 2) \div 153
        d == doy - (153 * mp + 2) \div 5 + 1
        m == IF mp < 10 THEN mp + 3 ELSE mp - 9
        y == yoe + era * 400 + (IF m <= 2 THEN 1 ELSE 0)
    IN  <<d, m, y>>

IsLeap(y) == (y % 4 = 0 /\ y % 100 # 0) \/ y % 400 = 0

DaysInMonth(m, y) ==
    IF m = 2 THEN (IF IsLeap(y) THEN 29 ELSE 28)
    ELSE IF m \in {4, 6, 9, 11} THEN 30 ELSE 31

\* strptime(..., '%d.%m.%Y') accepts exactly the texts of real dates
ValidDate(dmy) ==
    /\ Len(dmy) = 3
    /\ dmy[2] \in 1..12
    /\ dmy[3] \in 1..9999
    /\ dmy[1] \in 1..DaysInMonth(dmy[2], dmy[3])

\* strptime(..., '%d.%m.%Y').date(): <<d, m, y>> -> day number
StrpDate(dmy) ==
    LET d == dmy[1]
        m == dmy[2]
        y == IF m <= 2 THEN dmy[3] - 1 ELSE dmy[3]
        era == y \div 400
        yoe == y - era * 400
        doy == (153 * (IF m > 2 THEN m - 3 ELSE m + 9) + 2) \div 5 + d - 1
        doe == yoe * 365 + yoe \div 4 - yoe \div 100 + doy
    IN  era * 146097 + doe - 719468

-----------------------------------------------------------------------------
(* The text of a file *)

\* A header line holds one field: a text, or a date written day.month.year
\* (dmy = <<d, m, y>>).  The blank line holds neither.
Text(s) == [text |-> s, dmy |-> <<>>]
DateText(dmy) == [text |-> "", dmy |-> dmy]
Blank == Text("")
IsBlank(line) == line = Blank

\* n line ends after a field: the end of its line, then n - 1 blank lines
NewLines(n) == [i \in 1..(n - 1) |-> Blank]

\* A field of a body row: a number, or a text between double quotes
Num(n) == [quoted |-> FALSE, text |-> "", num |-> n]
Quoted(s) == [quoted |-> TRUE, text |-> s, num |-> 0]

\* pandas' missing value in a numeric column; the measurements are >= 0
NaN == -1
\* pandas' missing value in the error column
NoError == "nan"

\* Python's None where a text is expected
None == "None"
\* Python's truth value of a text or None
Truthy(value) == value # None /\ value # ""

-----------------------------------------------------------------------------
(* The metadata: the XML line and the dictionary read from it *)

\* An element of the XML line: its tag, its text (None when it has none) and
\* its child elements
Element(tag, text, children) == [tag |-> tag, text |-> text, children |-> children]

\* A value of the metadata dictionary: a text (or None), or a dictionary, which
\* is the sequence of its items in insertion order
Leaf(text) == [leaf |-> TRUE, text |-> text, dict |-> <<>>]
Dict(items) == [leaf |-> FALSE, text |-> "", dict |-> items]
Item(key, value) == [key |-> key, value |-> value]

HasKey(items, key) == \E i \in 1..Len(items) : items[i].key = key

\* {**dict_, **{key: value}}: a key already there keeps its place and takes
\* the new value, a new key goes last
Merge(items, item) ==
    IF HasKey(items, item.key)
    THEN [i \in 1..Len(items) |-> IF items[i].key = item.key THEN item ELSE items[i]]
    ELSE Append(items, item)

RECURSIVE MergeAll(_, _)
MergeAll(items, more) ==
    IF more = <<>> THEN items
    ELSE MergeAll(Merge(items, Head(more)), Tail(more))

\* _etree_to_dict: the one item {tag: text} or {tag: dict_}
RECURSIVE etree_to_dict(_)
etree_to_dict(etree_node) ==
    LET children == etree_node.children
    IN  IF Len(children) = 0
        THEN Item(etree_node.tag, Leaf(etree_node.text))
        ELSE Item(etree_node.tag,
                  Dict(MergeAll(<<>>, [i \in 1..Len(children) |-> etree_to_dict(children[i])])))

\* rec of _dict_to_etree
RECURSIVE rec(_, _)
rec(key, value) ==
    IF ~value.leaf
    THEN Element(key, None, [i \in 1..Len(value.dict) |-> rec(value.dict[i].key, value.dict[i].value)])
    ELSE Element(key, IF Truthy(value.text) THEN value.text ELSE "", <<>>)

\* _dict_to_etree: one element per item
dict_to_etree(dict_) == [i \in 1..Len(dict_) |-> rec(dict_[i].key, dict_[i].value)]

\* ET.fromstring on the text ET.tostring gives an element: an element whose
\* text is empty is written <tag /> or <tag></tag> and read with no text
RECURSIVE fromstring(_)
fromstring(node) ==
    Element(node.tag,
            IF node.text = "" THEN None ELSE node.text,
            [i \in 1..Len(node.children) |-> fromstring(node.children[i])])

\* the dictionary deidentify leaves
Skeleton ==
    << Item("PATIENTINFO", Dict(<< Item("DOB", Leaf("")), Item("RACE", Leaf("")) >>)),
       Item("REPORTINFO", Dict(<< Item("PHYSICIAN", Leaf("")),
                                  Item("NURSETECH", Leaf("")),
                                  Item("STATUS", Leaf("")),
                                  Item("CALIPERSUMMARY", Dict(<< Item("COUNT", Leaf("")) >>)) >>)) >>

-----------------------------------------------------------------------------
(* The object and the file *)

\* A file: the physical lines before the body (the header), the body rows
\* (8 fields each) and the last line (the XML line; none in a file cut short)
File(head, body, xml) == [head |-> head, body |-> body, xml |-> xml]

\* the number of physical lines pd.read_csv(skiprows=51) skips
HeaderLines == 51

\* A SpacelabsReader: self.subject, self.valid_measurements, self.metadata,
\* self.data (its rows in order), self._eb_dropped (the timestamps are the
\* index) and whether self.data has the columns window_start and window_end
Reader(subject, valid_measurements, metadata, data, eb_dropped, windowed) ==
    [subject |-> subject, valid_measurements |-> valid_measurements,
     metadata |-> metadata, data |-> data, eb_dropped |-> eb_dropped,
     windowed |-> windowed]

EmptyDoc == Reader("", "", Leaf(None), <<>>, FALSE, FALSE)

-----------------------------------------------------------------------------
(* __init__: reading a file *)

\* pd.read_csv(path, nrows=..., header=None) skips the blank lines
HeaderRows(f) == SelectSeq(f.head, LAMBDA line : ~IsBlank(line))

\* the number of rows the header is read from: 5, or 6 when row 4 is the
\* text 'Unknown Line'
RowsRead(rows) ==
    IF Len(rows) >= 5 /\ rows[5] = Text("Unknown Line") THEN 6 ELSE 5

\* pd.read_csv(path, skiprows=51, skipfooter=1, ...): the rows after the first
\* 51 physical lines, the last line left out
BodyRead(f) ==
    IF Len(f.head) >= HeaderLines THEN f.body
    ELSE SubSeq(f.body, HeaderLines - Len(f.head) + 1, Len(f.body))

\* the header lines after the first 51 that are read as body rows
HeadRead(f) ==
    SelectSeq(SubSeq(f.head, HeaderLines + 1, Len(f.head)), LAMBDA line : ~IsBlank(line))

\* a field of a numeric column: "" is read as NaN
ReadNumber(cell) == IF cell.quoted THEN NaN ELSE cell.num

\* a field of the error column: "" is read as NaN, "EB" as the text EB
ReadError(cell) == IF cell.text = "" THEN NoError ELSE cell.text

\* every row on the base date
AdjustDates_NoRollover(times, i, current_date, dates) ==
    [k \in 1..Len(times) |-> current_date]

\* the loop of lines 57-63: the date of row i, given the date of row i - 1
RECURSIVE AdjustDates(_, _, _, _)
AdjustDates(times, i, current_date, dates) ==
    IF i > Len(times) THEN dates
    ELSE LET next_date == IF times[i] < times[i - 1]
                          THEN current_date + 1 ELSE current_date
         IN  AdjustDates(times, i + 1, next_date, Append(dates, next_date))

\* self.data as read from the body: the columns in the order of line 70
ReadData(body, base_date) ==
    LET times == [i \in 1..Len(body) |-> MakeTime(body[i][1].num, body[i][2].num)]
        dates == AdjustDates(times, 2, base_date, <<base_date>>)
    IN  [i \in 1..Len(body) |->
            [timestamp |-> Combine(dates[i], times[i]),
             date |-> dates[i],
             time |-> times[i],
             SYS |-> ReadNumber(body[i][3]),
             DIA |-> ReadNumber(body[i][4]),
             ACC_x |-> ReadNumber(body[i][5]),
             ACC_y |-> ReadNumber(body[i][6]),
             ACC_z |-> ReadNumber(body[i][8]),
             error |-> ReadError(body[i][7]),
             window_start |-> 0,
             window_end |-> 0]]

\* (self.data['error'] != 'EB').all()
NoEB(data) == \A i \in 1..Len(data) : data[i].error # "EB"

\* how __init__ ends on file f: "ok", or the exception it raises
InitOutcome(f) ==
    LET rows == HeaderRows(f)
    IN  IF Len(rows) < RowsRead(rows)
        THEN (IF f.body # <<>> THEN "ParserError" ELSE "KeyError")
        ELSE IF ~ValidDate(rows[3].dmy) THEN "ValueError"
        ELSE IF HeadRead(f) # <<>> THEN "TypeError"
        ELSE IF BodyRead(f) = <<>> THEN "IndexError"
        ELSE IF \E i \in 1..Len(BodyRead(f)) :
                    ~ValidTime(BodyRead(f)[i][1].num, BodyRead(f)[i][2].num)
        THEN "ValueError"
        ELSE IF f.xml = <<>> THEN "ParseError"
        ELSE IF f.xml[1].tag # "XML" THEN "KeyError"
        ELSE "ok"

\* the object __init__ builds from file f, when it raises nothing
InitReader(f) ==
    LET rows == HeaderRows(f)
        data == ReadData(BodyRead(f), StrpDate(rows[3].dmy))
    IN  Reader(rows[1].text,
               rows[RowsRead(rows)].text,
               etree_to_dict(fromstring(f.xml[1])).value,
               data,
               NoEB(data),
               FALSE)

-----------------------------------------------------------------------------
(* deidentify, drop_EB, timeshift, set_window *)

\* deidentify leaving the subject as it is when no id is given
deidentify_KeepSubject(self, subject_id) ==
    [self EXCEPT !.subject = IF Truthy(subject_id) THEN subject_id ELSE @,
                 !.metadata = Dict(Skeleton)]

deidentify(self, subject_id) ==
    [self EXCEPT !.subject = IF Truthy(subject_id) THEN subject_id ELSE "",
                 !.metadata = Dict(Skeleton)]

\* self.data[self.data['error'] != 'EB']
KeepNotEB(data) == SelectSeq(data, LAMBDA row : row.error # "EB")

\* drop_EB making the timestamps the index without dropping a row
drop_EB_KeepRows(self) ==
    IF ~self.eb_dropped THEN [self EXCEPT !.eb_dropped = TRUE] ELSE self

drop_EB(self) ==
    IF ~self.eb_dropped
    THEN [self EXCEPT !.data = KeepNotEB(self.data), !.eb_dropped = TRUE]
    ELSE self

\* The argument of timeshift: the text 'random' (value: what random.uniform
\* draws, in seconds), a pd.Timedelta, a pd.Timestamp, or anything else
Random(value) == [kind |-> "random", value |-> value]
Timedelta(value) == [kind |-> "Timedelta", value |-> value]
Timestamp(value) == [kind |-> "Timestamp", value |-> value]
Other == [kind |-> "other", value |-> 0]

\* the bounds random.uniform draws between
one_month == 30 * SecondsPerDay
two_years == 730 * SecondsPerDay

\* Series.min()
Min(S) == CHOOSE x \in S : \A y \in S : x <= y
Column(data, name) == {data[i][name] : i \in 1..Len(data)}

\* the anchor measured from the last row
ShiftOrigin_Last(self) == self.data[Len(self.data)].timestamp

\* what the first element of a column taken by the anchor is measured from:
\* self.data.index[0] when the timestamps are the index, the column's
\* minimum otherwise
ShiftOrigin(self) ==
    IF self.eb_dropped THEN self.data[1].timestamp
    ELSE Min(Column(self.data, "timestamp"))

\* the timestamps moved, date and time left as they were
ShiftTimestamps_StaleDate(self, shift) ==
    [i \in 1..Len(self.data) |->
        [self.data[i] EXCEPT
            !.timestamp = IF shift.kind = "Timestamp"
                          THEN RoundMin(shift.value) + (@ - self.data[1].timestamp)
                          ELSE IF shift.kind = "Timedelta" THEN @ + RoundMin(shift.value)
                          ELSE @]]

\* lines 195-210: the timestamps moved, date and time taken from them again
ShiftTimestamps(self, shift) ==
    LET moved(t) ==
            IF shift.kind = "Timestamp"
            THEN RoundMin(shift.value) + (t - ShiftOrigin(self))
            ELSE IF shift.kind = "Timedelta" THEN t + RoundMin(shift.value)
            ELSE t
    IN  [i \in 1..Len(self.data) |->
            [self.data[i] EXCEPT !.timestamp = moved(@),
                                 !.date = DateOf(moved(self.data[i].timestamp)),
                                 !.time = TimeOf(moved(self.data[i].timestamp))]]

\* lines 213-221: the window columns moved, each from its own minimum
ShiftWindows(data, shift) ==
    LET moved(t, name) ==
            IF shift.kind = "Timestamp"
            THEN RoundMin(shift.value) + (t - Min(Column(data, name)))
            ELSE IF shift.kind = "Timedelta" THEN t + RoundMin(shift.value)
            ELSE t
    IN  [i \in 1..Len(data) |->
            [data[i] EXCEPT !.window_start = moved(@, "window_start"),
                            !.window_end = moved(@, "window_end")]]

\* how timeshift ends: self.data.index[0] raises on an empty index
TimeshiftOutcome(self, shift) ==
    IF shift.kind = "Timestamp" /\ self.eb_dropped /\ self.data = <<>>
    THEN "IndexError" ELSE "ok"

RECURSIVE timeshift(_, _)
timeshift(self, shift) ==
    LET drawn == IF shift.kind = "random"
                 THEN timeshift(self, Timedelta(0 - RoundMin(shift.value)))
                 ELSE self
        shifted == ShiftTimestamps(drawn, shift)
    IN  [drawn EXCEPT !.data = IF drawn.windowed
                                THEN ShiftWindows(shifted, shift)
                                ELSE shifted]

WindowTypes == {"bffill", "bfill", "ffill"}

\* the window set_window gives a row whose timestamp is t
WindowStart(t, window_duration, window_type) ==
    IF window_type = "bffill" THEN t - window_duration \div 2
    ELSE IF window_type = "bfill" THEN t - window_duration
    ELSE t

WindowEnd(t, window_duration, window_type) ==
    IF window_type = "bffill" THEN t + window_duration \div 2
    ELSE IF window_type = "bfill" THEN t
    ELSE t + window_duration

set_window(self, window_duration, window_type) ==
    IF window_type \in WindowTypes
    THEN [self EXCEPT
            !.data = [i \in 1..Len(self.data) |->
                        [self.data[i] EXCEPT
                            !.window_start = WindowStart(self.data[i].timestamp,
                                                         window_duration, window_type),
                            !.window_end = WindowEnd(self.data[i].timestamp,
                                                     window_duration, window_type)]],
            !.windowed = TRUE]
    ELSE self

-----------------------------------------------------------------------------
(* write *)

\* the numbers written for NaN, 'EB' and 'AB'
NaNCode == -9999
EBCode == -9998
ABCode == -9997

\* fillna(-9999) on a numeric column
FillNumber(value) == IF value = NaN THEN NaNCode ELSE value

\* fillna(-9999), replace('EB', -9998), replace('AB', -9997) on the error column
FillError(error) ==
    IF error = NoError THEN NaNCode
    ELSE IF error = "EB" THEN EBCode
    ELSE ABCode

\* the numbers written as they are, the three replace calls left out
AsField_NoReplace(n) == Num(n)

\* astype(int).astype(str), then the three replace calls of lines 141-143
AsField(n) ==
    IF n = NaNCode THEN Quoted("")
    ELSE IF n = EBCode THEN Quoted("EB")
    ELSE IF n = ABCode THEN Quoted("AB")
    ELSE Num(n)

\* one row of printing_df: the columns in the order of line 134
WriteRow(row) ==
    << Num(StrfHour(row.time)), Num(StrfMinute(row.time)),
       AsField(FillNumber(row.SYS)), AsField(FillNumber(row.DIA)),
       AsField(FillNumber(row.ACC_x)), AsField(FillNumber(row.ACC_y)),
       AsField(FillError(row.error)), AsField(FillNumber(row.ACC_z)) >>

\* what is written before the date: lines 122-125
HeadBeforeDate(self) ==
    <<Blank, Text(self.subject)>> \o NewLines(8) \o <<Text("0")>> \o NewLines(8)

\* lines 126-130
HeadFromDate(self) ==
    <<DateText(StrfDate(self.data[1].date))>> \o NewLines(7)
        \o <<Text("Unknown Line")>> \o NewLines(26)
        \o <<Text(self.valid_measurements)>>

\* how write ends: self.data.date[0] raises when there is no row,
\* astype(int) on an error text other than EB and AB, and
\* _dict_to_etree on metadata that is not a dictionary
WriteOutcome(self) ==
    IF self.data = <<>> THEN (IF self.eb_dropped THEN "IndexError" ELSE "KeyError")
    ELSE IF \E i \in 1..Len(self.data) : self.data[i].error \notin {NoError, "EB", "AB"}
    THEN "ValueError"
    ELSE IF self.metadata.leaf THEN "AttributeError"
    ELSE "ok"

\* the file write leaves on disk (what was written before an exception stays)
WriteFile(self) ==
    LET result == WriteOutcome(self)
    IN  IF result \in {"IndexError", "KeyError"}
        THEN File(HeadBeforeDate(self), <<>>, <<>>)
        ELSE IF result = "ValueError"
        THEN File(HeadBeforeDate(self) \o HeadFromDate(self), <<>>, <<>>)
        ELSE File(HeadBeforeDate(self) \o HeadFromDate(self),
                  [i \in 1..Len(self.data) |-> WriteRow(self.data[i])],
                  IF result = "AttributeError" THEN <<>>
                  ELSE <<Element("XML", None, dict_to_etree(self.metadata.dict))>>)

-----------------------------------------------------------------------------
(* The input files *)

\* the sequences over S of length 1 to n
SeqsUpTo(S, n) == UNION {[1..k -> S] : k \in 1..n}

\* the header as the device writes it: row 4 of the non-blank rows is the
\* text 'Unknown Line', the count of valid measurements is row 5
DeviceHead(subject, dmy, valid) ==
    <<Blank, Text(subject)>> \o NewLines(8) \o <<Text("0")>> \o NewLines(8)
        \o <<DateText(dmy)>> \o NewLines(7)
        \o <<Text("1"), Text("Unknown Line")>> \o NewLines(25)
        \o <<Text(valid)>>

\* a header whose row 4 is the count itself
PlainHead(subject, dmy, valid) ==
    <<Blank, Text(subject)>> \o NewLines(8) \o <<Text("0")>> \o NewLines(8)
        \o <<DateText(dmy)>> \o NewLines(7)
        \o <<Text("1")>> \o NewLines(26)
        \o <<Text(valid)>>

\* the measured values of a body row, and none of them
Measured == [SYS |-> 120, DIA |-> 80, ACC_x |-> 0, ACC_y |-> 3, ACC_z |-> 7]
Unmeasured == [SYS |-> NaN, DIA |-> NaN, ACC_x |-> NaN, ACC_y |-> NaN, ACC_z |-> NaN]
OnlyPressure == [SYS |-> 135, DIA |-> 91, ACC_x |-> NaN, ACC_y |-> NaN, ACC_z |-> NaN]

\* a value as the device writes it: "" for none
InputField(value) == IF value = NaN THEN Quoted("") ELSE Num(value)

BodyRow(hm, values, error) ==
    << Num(hm[1]), Num(hm[2]),
       InputField(values.SYS), InputField(values.DIA),
       InputField(values.ACC_x), InputField(values.ACC_y),
       Quoted(error), InputField(values.ACC_z) >>

\* the times of day of the body rows: <<hour, minute>>
Times == {<<23, 59>>, <<0, 1>>}

\* a measurement, or a failed one flagged EB
Rows == {BodyRow(hm, Measured, "") : hm \in Times}
            \cup {BodyRow(hm, Unmeasured, "EB") : hm \in Times}

\* the recording of spec section 8: 23:58, 23:59, 00:01, 00:02
RolloverBody ==
    << BodyRow(<<23, 58>>, Measured, ""), BodyRow(<<23, 59>>, Measured, ""),
       BodyRow(<<0, 1>>, Measured, ""), BodyRow(<<0, 2>>, Measured, "") >>

\* a failed measurement after midnight between two measurements at 23:59
NightBody ==
    << BodyRow(<<23, 59>>, Measured, ""), BodyRow(<<0, 1>>, Unmeasured, "EB"),
       BodyRow(<<23, 59>>, Measured, "") >>

Bodies == SeqsUpTo(Rows, MaxRows) \cup {RolloverBody, NightBody}

\* the XML line of a recording
PatientXml ==
    Element("XML", None,
        << Element("PATIENTINFO", None,
               << Element("DOB", "01.02.1960", <<>>), Element("RACE", None, <<>>) >>),
           Element("REPORTINFO", None,
               << Element("PHYSICIAN", "Dr A", <<>>),
                  Element("CALIPERSUMMARY", None, << Element("COUNT", "0", <<>>) >>) >>) >>)

\* an XML line in which a tag comes twice
TwiceXml ==
    Element("XML", None,
        << Element("PATIENTINFO", None,
               << Element("DOB", "01.02.1960", <<>>), Element("RACE", "a", <<>>),
                  Element("DOB", "03.04.1970", <<>>) >>),
           Element("STATUS", "", <<>>) >>)

BaseDate == <<28, 2, 2020>>

InputFiles ==
    {File(DeviceHead("P001", BaseDate, "2"), body, <<PatientXml>>) : body \in Bodies}

\* the files read and written back untouched: both headers, every error flag,
\* rows with and without values
CodecRows ==
    {BodyRow(hm, values, error) :
        hm \in Times, values \in {Measured, Unmeasured, OnlyPressure},
        error \in {"", "EB", "AB"}}

CodecFiles ==
    {File(head, body, <<xml>>) :
        head \in {DeviceHead("P001", BaseDate, "2"), PlainHead("007", <<31, 12, 2019>>, "17")},
        body \in SeqsUpTo(CodecRows, MaxRows) \cup {RolloverBody},
        xml \in {PatientXml, TwiceXml}}

\* the arguments the methods are called with
SubjectIds == {None, "", "anon"}

Shifts ==
    { Random(one_month + 30), Random(two_years),
      Timedelta(90), Timedelta(0 - SecondsPerDay - 30),
      Timestamp(Combine(StrpDate(<<31, 12, 2019>>), MakeTime(23, 58) + 30)),
      Other }

Durations == {601}
InvalidWindowType == "nearest"

-----------------------------------------------------------------------------
(* The calls *)

NoFile == File(<<>>, <<>>, <<>>)
NoSnap == [has |-> FALSE, doc |-> EmptyDoc]
NoWin == [window_duration |-> 0, window_type |-> "none"]

Init ==
    /\ file \in InputFiles
    /\ doc = EmptyDoc
    /\ phase = "file"
    /\ outcome = "ok"
    /\ lastOp = "none"
    /\ snap = NoSnap
    /\ win = NoWin
    /\ nshift = 0

\* SpacelabsReader(path), on the input file or on the file just written
Load ==
    /\ phase \in {"file", "written"}
    /\ outcome' = InitOutcome(file)
    /\ doc' = IF InitOutcome(file) = "ok" THEN InitReader(file) ELSE EmptyDoc
    /\ phase' = IF InitOutcome(file) = "ok" THEN "loaded" ELSE "failed"
    /\ lastOp' = "load"
    /\ win' = NoWin
    /\ file' = NoFile
    /\ UNCHANGED <<snap, nshift>>

Deidentify(subject_id) ==
    /\ phase = "loaded"
    /\ doc' = deidentify(doc, subject_id)
    /\ outcome' = "ok"
    /\ lastOp' = "deidentify"
    /\ snap' = NoSnap
    /\ UNCHANGED <<file, phase, win, nshift>>

DropEB ==
    /\ phase = "loaded"
    /\ doc' = drop_EB(doc)
    /\ outcome' = "ok"
    /\ lastOp' = "drop_EB"
    /\ snap' = NoSnap
    /\ UNCHANGED <<file, phase, win, nshift>>

Timeshift(shift) ==
    /\ phase = "loaded"
    /\ nshift < MaxShifts
    /\ outcome' = TimeshiftOutcome(doc, shift)
    /\ doc' = IF TimeshiftOutcome(doc, shift) = "ok" THEN timeshift(doc, shift) ELSE doc
    /\ lastOp' = "timeshift"
    /\ snap' = NoSnap
    /\ nshift' = nshift + 1
    /\ UNCHANGED <<file, phase, win>>

SetWindow(window_duration, window_type) ==
    /\ phase = "loaded"
    /\ doc' = set_window(doc, window_duration, window_type)
    /\ outcome' = "ok"
    /\ lastOp' = "set_window"
    /\ snap' = NoSnap
    /\ win' = IF window_type \in WindowTypes
              THEN [window_duration |-> window_duration, window_type |-> window_type]
              ELSE win
    /\ UNCHANGED <<file, phase, nshift>>

Write ==
    /\ phase = "loaded"
    /\ file' = WriteFile(doc)
    /\ outcome' = WriteOutcome(doc)
    /\ phase' = "written"
    /\ lastOp' = "write"
    /\ snap' = [has |-> TRUE, doc |-> doc]
    /\ UNCHANGED <<doc, win, nshift>>

Next ==
    \/ Load
    \/ \E subject_id \in SubjectIds : Deidentify(subject_id)
    \/ DropEB
    \/ \E shift \in Shifts : Timeshift(shift)
    \/ \E window_duration \in Durations, window_type \in WindowTypes \cup {InvalidWindowType} :
            SetWindow(window_duration, window_type)
    \/ Write

Spec == Init /\ [][Next]_vars

\* reading and writing alone
InitCodec ==
    /\ file \in CodecFiles
    /\ doc = EmptyDoc
    /\ phase = "file"
    /\ outcome = "ok"
    /\ lastOp = "none"
    /\ snap = NoSnap
    /\ win = NoWin
    /\ nshift = 0

NextCodec == Load \/ Write

SpecCodec == InitCodec /\ [][NextCodec]_vars

-----------------------------------------------------------------------------
(* Properties *)

RowIndex(d) == 1..Len(d.data)

\* the same number of rows with the same values and error flags, in order
SameValues(a, b) ==
    /\ Len(a.data) = Len(b.data)
    /\ \A i \in RowIndex(a) :
        /\ a.data[i].SYS = b.data[i].SYS
        /\ a.data[i].DIA = b.data[i].DIA
        /\ a.data[i].ACC_x = b.data[i].ACC_x
        /\ a.data[i].ACC_y = b.data[i].ACC_y
        /\ a.data[i].ACC_z = b.data[i].ACC_z
        /\ a.data[i].error = b.data[i].error

\* the same rows in the same order: timestamps, values and error flags
SameRecords(a, b) ==
    /\ SameValues(a, b)
    /\ \A i \in RowIndex(a) : a.data[i].timestamp = b.data[i].timestamp

\* the object was read from a file that write() produced
Reloaded == lastOp = "load" /\ snap.has

\* C1: a file that is read, written back and read again gives the same
\* subject, count of valid measurements, indexing mode, rows (timestamps,
\* values, error flags, in order) and metadata as the first reading.
C1_RoundTrip ==
    /\ lastOp = "write" => outcome = "ok"
    /\ Reloaded =>
        /\ outcome = "ok"
        /\ doc.subject = snap.doc.subject
        /\ doc.valid_measurements = snap.doc.valid_measurements
        /\ doc.eb_dropped = snap.doc.eb_dropped
        /\ SameRecords(doc, snap.doc)
        /\ doc.metadata = snap.doc.metadata

C1_Witness ==
    /\ Reloaded
    /\ outcome = "ok"
    /\ Len(doc.data) = 2
    /\ doc.data[1].error = "EB"
    /\ doc.data[2].SYS = NaN
    /\ doc.data[2].date = doc.data[1].date + 1
    /\ doc.valid_measurements = "17"

\* C2: whatever deidentify, drop_EB, timeshift and set_window calls came
\* before, writing the object and reading the written file raises nothing
\* and gives the subject, count of valid measurements and rows (timestamps,
\* values, error flags) of the object written.
C2_TransformedRoundTrip ==
    /\ lastOp = "write" => outcome = "ok"
    /\ Reloaded =>
        /\ outcome = "ok"
        /\ doc.subject = snap.doc.subject
        /\ doc.valid_measurements = snap.doc.valid_measurements
        /\ SameRecords(doc, snap.doc)

\* C3: drop_EB leaves no row flagged EB and the timestamps as the index; on an
\* object whose timestamps are the index already it changes nothing.  So an
\* object indexed by timestamp never has a row flagged EB, and it never goes
\* back to the positional index.
C3_DropEB ==
    /\ [](doc.eb_dropped => NoEB(doc.data))
    /\ [][/\ DropEB => /\ doc'.eb_dropped
                       /\ NoEB(doc'.data)
                       /\ doc.eb_dropped => doc' = doc
          /\ (doc.eb_dropped /\ phase' = "loaded") => doc'.eb_dropped]_vars

C3_Witness ==
    /\ lastOp = "drop_EB"
    /\ doc.eb_dropped
    /\ Len(doc.data) = 1
    /\ nshift = 0

\* C4: when the timestamps are the index, no two rows have the same timestamp.
C4_UniqueIndex ==
    (phase = "loaded" /\ doc.eb_dropped) =>
        \A i, j \in RowIndex(doc) : i # j => doc.data[i].timestamp # doc.data[j].timestamp

\* C5: in every object, whatever calls came before, the date of a row is the
\* calendar date of its timestamp and the time of a row its time of day.
C5_DateTimeConsistent ==
    phase = "loaded" =>
        \A i \in RowIndex(doc) :
            /\ doc.data[i].date = DateOf(doc.data[i].timestamp)
            /\ doc.data[i].time = TimeOf(doc.data[i].timestamp)

C5_Witness ==
    /\ lastOp = "timeshift"
    /\ ~doc.eb_dropped
    /\ Len(doc.data) = 2
    /\ StrfDate(doc.data[1].date) = <<31, 12, 2019>>
    /\ StrfDate(doc.data[2].date) = <<1, 1, 2020>>

\* C6: timeshift to a timestamp, with either index: the earliest row is then at
\* the timestamp rounded to the minute, the difference between the timestamps
\* of any two rows is what it was, and the number, order, values and error
\* flags of the rows are what they were.
C6_AnchorShift ==
    [][\A shift \in Shifts :
        (shift.kind = "Timestamp" /\ Timeshift(shift) /\ outcome' = "ok") =>
            /\ SameValues(doc', doc)
            /\ doc.data # <<>> =>
                 Min(Column(doc'.data, "timestamp")) = RoundMin(shift.value)
            /\ \A i, j \in RowIndex(doc) :
                 doc'.data[j].timestamp - doc'.data[i].timestamp
                    = doc.data[j].timestamp - doc.data[i].timestamp]_vars

C6_Witness ==
    /\ lastOp = "timeshift"
    /\ outcome = "ok"
    /\ ~doc.eb_dropped
    /\ Len(doc.data) = 2
    /\ \E shift \in Shifts :
        /\ shift.kind = "Timestamp"
        /\ doc.data[1].timestamp = RoundMin(shift.value)
        /\ doc.data[2].timestamp = RoundMin(shift.value) + 2 * SecondsPerMinute

\* C7: deidentify sets the subject to the id given, or to the empty text when
\* none is given, and the metadata to the skeleton of empty fields, whatever
\* they were; calling it again with the same argument changes nothing.
C7_Deidentify ==
    [][\A subject_id \in SubjectIds :
        Deidentify(subject_id) =>
            /\ doc'.subject = (IF subject_id \in {None, ""} THEN "" ELSE subject_id)
            /\ doc'.metadata = Dict(Skeleton)
            /\ deidentify(doc', subject_id) = doc'
            /\ (lastOp = "deidentify" /\ doc.subject = doc'.subject) => doc' = doc]_vars

C7_Witness ==
    /\ lastOp = "deidentify"
    /\ doc.subject = ""
    /\ doc.metadata = Dict(Skeleton)
    /\ doc.data # <<>>

\* C8: the timestamps never decrease along the rows, after reading and after
\* any calls of drop_EB, timeshift and set_window; reading moves the date on
\* by one day exactly at each row whose time of day is earlier than that of
\* the row before.
C8_Chronological ==
    /\ phase = "loaded" =>
        \A i \in RowIndex(doc) :
            i > 1 => doc.data[i - 1].timestamp <= doc.data[i].timestamp
    /\ (phase = "loaded" /\ lastOp = "load") =>
        \A i \in RowIndex(doc) :
            i > 1 => doc.data[i].date =
                        doc.data[i - 1].date
                            + (IF doc.data[i].time < doc.data[i - 1].time THEN 1 ELSE 0)

C8_Witness ==
    /\ phase = "loaded"
    /\ lastOp = "load"
    /\ Len(doc.data) = 4
    /\ [i \in 1..4 |-> doc.data[i].time] =
          <<MakeTime(23, 58), MakeTime(23, 59), MakeTime(0, 1), MakeTime(0, 2)>>
    /\ [i \in 1..4 |-> doc.data[i].date - doc.data[1].date] = <<0, 0, 1, 1>>

\* C9: timeshift with an argument that is not 'random', a Timedelta or a
\* Timestamp, and set_window with a window type that is not bffill, bfill or
\* ffill, end in an error and leave the object as it was.
C9_RejectsUnknownArguments ==
    [][/\ Timeshift(Other) => (outcome' # "ok" /\ doc' = doc)
       /\ \A window_duration \in Durations :
            SetWindow(window_duration, InvalidWindowType) =>
                (outcome' # "ok" /\ doc' = doc)]_vars

\* C10: once set_window has set the windows, every row's window is, after any
\* calls of timeshift, the window set_window would give its timestamp.
C10_WindowsFollowTimestamps ==
    (phase = "loaded" /\ doc.windowed) =>
        \A i \in RowIndex(doc) :
            /\ doc.data[i].window_start =
                 WindowStart(doc.data[i].timestamp, win.window_duration, win.window_type)
            /\ doc.data[i].window_end =
                 WindowEnd(doc.data[i].timestamp, win.window_duration, win.window_type)

====
